---- MODULE Spec2Model ----
(***************************************************************************)
(* Wrappers of the short-video creator around its external engines:        *)
(* Remotion (renderer), FFMpeg (transcoder), Whisper (transcription) and   *)
(* Kokoro (text to speech).  Every external process or library call is an  *)
(* environment choice: it succeeds, or it fails with an error.  A call     *)
(* that is awaited is in flight between the step that starts it and the    *)
(* step that settles it; execSync calls settle inside the step.            *)
(*                                                                         *)
(* The four wrappers share no state, so a behaviour exercises one of them, *)
(* selected by the variable component in the initial state.  An init can   *)
(* be retried after it has thrown; FFMpeg.init, which writes a static      *)
(* flag, can be called again at any time.  The instance an init returns    *)
(* takes one render or generate call (their calls share nothing but the    *)
(* instance's constructor arguments) and any number of CreateCaption calls *)
(* (which share the script file); an FFMpeg instance takes one audio       *)
(* command per init.  SpecOverlap is the Whisper instance with a second    *)
(* CreateCaption call made while the first is in progress.                 *)
(***************************************************************************)
EXTENDS Integers, Sequences, FiniteSets, TLC

VARIABLES component, remotionInit, render, gpuAccelerated, ffmpegInit, audio,
          whisperInit, scriptFile, caption, overlapping, kokoroInit,
          generate

vars == <<component, remotionInit, render, gpuAccelerated, ffmpegInit, audio,
          whisperInit, scriptFile, caption, overlapping, kokoroInit,
          generate>>

(* ------------------------------ bounds --------------------------------- *)
\* largest config.concurrency tried
MaxConcurrency == 4
\* largest config.videoCacheSizeInBytes tried
MaxCacheSize == 3
\* number of distinct error values an external call can fail with
NumErrors == 2

\* what an external call throws when it fails, and the value that stands for
\* no error
Errors == { <<"external failure", i>> : i \in 1..NumErrors }
NoError == <<"no error", 0>>

(* ------------------------- strings as char tuples ---------------------- *)
\* String.prototype.includes
Includes(s, sub) ==
  \E i \in 1..(Len(s) - Len(sub) + 1) : SubSeq(s, i, i + Len(sub) - 1) = sub

Whitespace == {" ", "\n"}

RECURSIVE TrimStart(_)
TrimStart(s) ==
  IF s # <<>> /\ Head(s) \in Whitespace THEN TrimStart(Tail(s)) ELSE s

RECURSIVE TrimEnd(_)
TrimEnd(s) ==
  IF s # <<>> /\ s[Len(s)] \in Whitespace
    THEN TrimEnd(SubSeq(s, 1, Len(s) - 1)) ELSE s

\* String.prototype.trim
Trim(s) == TrimEnd(TrimStart(s))

\* one entry of an operation's record of the external calls it has made
Call(name, ok, err) == [call |-> name, ok |-> ok, err |-> err]
Ok(name) == Call(name, TRUE, NoError)
Failed(name, err) == Call(name, FALSE, err)

Max(a, b) == IF a >= b THEN a ELSE b

(* ============================== Remotion ================================ *)
Configs == [runningInDocker : BOOLEAN, concurrency : 1..MaxConcurrency,
            videoCacheSizeInBytes : {0, MaxCacheSize}]
NoConfig == [runningInDocker |-> FALSE, concurrency |-> 1,
             videoCacheSizeInBytes |-> 0]

\* outputs of `npm list @remotion/renderer' (the version part of the listing)
Version286 == <<"4", ".", "0", ".", "2", "8", "6">>
NpmListOutputs == { <<"@">> \o Version286 \o <<"\n">>,
                    <<"@", "4", ".", "0", ".", "2", "8", "5", "\n">>,
                    <<"e", "m", "p", "t", "y", "\n">> }

\* the environment of the GPU setup block of Remotion.init
GpuSetupEnvs == [install : {NoError} \cup Errors,
                 list : {NoError} \cup Errors,
                 listOut : NpmListOutputs,
                 export : {NoError} \cup Errors]

IncorrectVersion == <<"Incorrect @remotion version installed", 0>>

\* the try block of Remotion.init: the calls made, and the error it catches
GpuSetupTry(e) ==
  IF e.install # NoError
    THEN [log |-> <<Failed("npm install ffmpeg", e.install)>>, caught |-> e.install]
  ELSE IF e.list # NoError
    THEN [log |-> <<Ok("npm install ffmpeg"), Failed("npm list", e.list)>>,
          caught |-> e.list]
  ELSE IF ~Includes(e.listOut, Version286)
    THEN [log |-> <<Ok("npm install ffmpeg"), Ok("npm list")>>,
          caught |-> IncorrectVersion]
  ELSE IF e.export # NoError
    THEN [log |-> <<Ok("npm install ffmpeg"), Ok("npm list"),
                    Failed("export FFMPEG_BINARY", e.export)>>,
          caught |-> e.export]
  ELSE [log |-> <<Ok("npm install ffmpeg"), Ok("npm list"),
                  Ok("export FFMPEG_BINARY")>>,
        caught |-> NoError]

RemotionIdle ==
  [pc |-> "none", config |-> NoConfig, log |-> <<>>, inflight |-> {},
   warning |-> NoError, error |-> NoError]

\* Remotion.init up to its first await: ensureBrowser() is started
InitStart(config) ==
  [RemotionIdle EXCEPT !.pc = "ensureBrowser", !.config = config,
                       !.inflight = {"ensureBrowser"}]

\* a GPU setup whose failure is rethrown
MutAfterEnsureBrowser(ri, err, e) ==
  IF err # NoError
    THEN [ri EXCEPT !.pc = "thrown", !.inflight = {}, !.error = err,
                    !.log = Append(@, Failed("ensureBrowser", err))]
  ELSE IF ri.config.runningInDocker
    THEN [ri EXCEPT !.pc = "bundle", !.inflight = {"bundle"},
                    !.log = Append(@, Ok("ensureBrowser"))]
  ELSE LET t == GpuSetupTry(e) IN
       IF t.caught # NoError
         THEN [ri EXCEPT !.pc = "thrown", !.inflight = {}, !.error = t.caught,
                         !.log = <<Ok("ensureBrowser")>> \o t.log]
         ELSE [ri EXCEPT !.pc = "bundle", !.inflight = {"bundle"},
                         !.log = <<Ok("ensureBrowser")>> \o t.log]

\* Remotion.init from the settling of ensureBrowser to the await of bundle
AfterEnsureBrowser(ri, err, e) ==
  IF err # NoError
    THEN [ri EXCEPT !.pc = "thrown", !.inflight = {}, !.error = err,
                    !.log = Append(@, Failed("ensureBrowser", err))]
  ELSE IF ri.config.runningInDocker
    THEN [ri EXCEPT !.pc = "bundle", !.inflight = {"bundle"},
                    !.log = Append(@, Ok("ensureBrowser"))]
  ELSE LET t == GpuSetupTry(e) IN
       [ri EXCEPT !.pc = "bundle", !.inflight = {"bundle"},
                  !.warning = t.caught,
                  !.log = <<Ok("ensureBrowser")>> \o t.log]

\* Remotion.init from the settling of bundle to its return
AfterBundle(ri, err) ==
  IF err # NoError
    THEN [ri EXCEPT !.pc = "thrown", !.inflight = {}, !.error = err,
                    !.log = Append(@, Failed("bundle", err))]
    ELSE [ri EXCEPT !.pc = "returned", !.inflight = {},
                    !.log = Append(@, Ok("bundle"))]

(* ---------------------------- Remotion.render -------------------------- *)
Datas == {"d1", "d2"}
Ids == {"v1", "v2"}
Compositions == {"c1", "c2"}

RenderIdle ==
  [pc |-> "idle", data |-> "d1", id |-> "v1", composition |-> "none",
   outputLocation |-> <<>>, inflight |-> {}, log |-> <<>>, renders |-> <<>>,
   error |-> NoError]

\* path.join(this.config.videosDirPath, `${id}.mp4`)
OutputLocation(id) == <<"videosDirPath", id, ".mp4">>

\* render up to its first await: selectComposition is started
RenderStart(data, id) ==
  [RenderIdle EXCEPT !.pc = "selectComposition", !.data = data, !.id = id,
                     !.inflight = {"selectComposition"}]

\* the options of the primary renderMedia call
PrimaryOptions(r, config, comp, out) ==
  [kind |-> "primary", composition |-> comp, inputProps |-> r.data,
   outputLocation |-> out, concurrency |-> config.concurrency,
   offthreadVideoCacheSizeInBytes |-> config.videoCacheSizeInBytes]

MutFallbackConcurrency(c) == c

\* Math.max(1, Math.floor(this.config.concurrency / 2))
FallbackConcurrency(c) == Max(1, c \div 2)

\* the options of the renderMedia call of fallbackCPURender
FallbackOptions(r, config) ==
  [kind |-> "fallback", composition |-> r.composition, inputProps |-> r.data,
   outputLocation |-> r.outputLocation,
   concurrency |-> FallbackConcurrency(config.concurrency),
   offthreadVideoCacheSizeInBytes |-> config.videoCacheSizeInBytes \div 2]

\* a render that goes on after selectComposition has failed
MutAfterSelectComposition(r, config, err, comp) ==
  LET out == OutputLocation(r.id) IN
  [r EXCEPT !.pc = "primary", !.inflight = {"primary"},
            !.composition = comp, !.outputLocation = out,
            !.log = Append(@, IF err # NoError
                                THEN Failed("selectComposition", err)
                                ELSE Ok("selectComposition")),
            !.renders = Append(@, PrimaryOptions(r, config, comp, out))]

\* render from the settling of selectComposition to the await of renderMedia
AfterSelectComposition(r, config, err, comp) ==
  IF err # NoError
    THEN [r EXCEPT !.pc = "thrown", !.inflight = {}, !.error = err,
                   !.log = Append(@, Failed("selectComposition", err))]
    ELSE LET out == OutputLocation(r.id) IN
         [r EXCEPT !.pc = "primary", !.inflight = {"primary"},
                   !.composition = comp, !.outputLocation = out,
                   !.log = Append(@, Ok("selectComposition")),
                   !.renders = Append(@, PrimaryOptions(r, config, comp, out))]

\* a render without the CPU fallback
MutAfterPrimary(r, config, err) ==
  IF err # NoError
    THEN [r EXCEPT !.pc = "thrown", !.inflight = {}, !.error = err,
                   !.log = Append(@, Failed("renderMedia primary", err))]
    ELSE [r EXCEPT !.pc = "returned", !.inflight = {},
                   !.log = Append(@, Ok("renderMedia primary"))]

\* render from the settling of the primary renderMedia: return, or the catch
\* block up to the await of fallbackCPURender
AfterPrimary(r, config, err) ==
  IF err # NoError
    THEN [r EXCEPT !.pc = "fallback", !.inflight = {"fallback"},
                   !.log = Append(@, Failed("renderMedia primary", err)),
                   !.renders = Append(@, FallbackOptions(r, config))]
    ELSE [r EXCEPT !.pc = "returned", !.inflight = {},
                   !.log = Append(@, Ok("renderMedia primary"))]

\* render from the settling of the fallback renderMedia to its end
AfterFallback(r, err) ==
  IF err # NoError
    THEN [r EXCEPT !.pc = "thrown", !.inflight = {}, !.error = err,
                   !.log = Append(@, Failed("renderMedia fallback", err))]
    ELSE [r EXCEPT !.pc = "returned", !.inflight = {},
                   !.log = Append(@, Ok("renderMedia fallback"))]

OtherThanRemotion ==
  UNCHANGED <<component, gpuAccelerated, ffmpegInit, audio, whisperInit,
              scriptFile, caption, overlapping, kokoroInit, generate>>

RemotionInitCall ==
  /\ component = "Remotion"
  /\ remotionInit.pc \in {"none", "thrown"}
  /\ \E config \in Configs : remotionInit' = InitStart(config)
  /\ UNCHANGED render
  /\ OtherThanRemotion

EnsureBrowserSettles ==
  /\ component = "Remotion"
  /\ remotionInit.pc = "ensureBrowser"
  /\ \E err \in {NoError} \cup Errors, e \in GpuSetupEnvs :
       remotionInit' = AfterEnsureBrowser(remotionInit, err, e)
  /\ UNCHANGED render
  /\ OtherThanRemotion

BundleSettles ==
  /\ component = "Remotion"
  /\ remotionInit.pc = "bundle"
  /\ \E err \in {NoError} \cup Errors :
       remotionInit' = AfterBundle(remotionInit, err)
  /\ UNCHANGED render
  /\ OtherThanRemotion

RenderCall ==
  /\ component = "Remotion"
  /\ remotionInit.pc = "returned"
  /\ render.pc = "idle"
  /\ \E data \in Datas, id \in Ids : render' = RenderStart(data, id)
  /\ UNCHANGED remotionInit
  /\ OtherThanRemotion

SelectCompositionSettles ==
  /\ component = "Remotion"
  /\ render.pc = "selectComposition"
  /\ \E err \in {NoError} \cup Errors, comp \in Compositions :
       render' = AfterSelectComposition(render, remotionInit.config, err, comp)
  /\ UNCHANGED remotionInit
  /\ OtherThanRemotion

PrimaryRenderSettles ==
  /\ component = "Remotion"
  /\ render.pc = "primary"
  /\ \E err \in {NoError} \cup Errors :
       render' = AfterPrimary(render, remotionInit.config, err)
  /\ UNCHANGED remotionInit
  /\ OtherThanRemotion

FallbackRenderSettles ==
  /\ component = "Remotion"
  /\ render.pc = "fallback"
  /\ \E err \in {NoError} \cup Errors : render' = AfterFallback(render, err)
  /\ UNCHANGED remotionInit
  /\ OtherThanRemotion

(* =============================== FFMpeg ================================= *)
\* outputs of `nvidia-smi --query-gpu=name --format=csv,noheader'
T4 == <<"T", "4">>
NvidiaSmiOutputs == { <<"T", "e", "s", "l", "a", " ">> \o T4 \o <<"\n">>,
                      <<"A", "1", "0", "0", "\n">>,
                      <<>> }

\* outputs of `ffmpeg -codecs'
Nvenc == <<"n", "v", "e", "n", "c">>
CodecsOutputs == { <<"h", "2", "6", "4", "_">> \o Nvenc \o <<"\n">>,
                   <<"x", "2", "6", "4", "\n">> }

\* the environment of the GPU detection block of FFMpeg.init
GpuDetectEnvs == [smi : {NoError} \cup Errors, smiOut : NvidiaSmiOutputs,
                  codecs : {NoError} \cup Errors, codecsOut : CodecsOutputs]

\* the try/catch block of FFMpeg.init: the flag it leaves, given the flag it
\* finds, the calls made, the warning logged by the catch, and what it saw
GpuDetect(flag, e) ==
  IF e.smi # NoError
    THEN [flag |-> flag, log |-> <<Failed("nvidia-smi", e.smi)>>,
          warning |-> e.smi, detectedT4 |-> FALSE, verifiedNvenc |-> FALSE]
  ELSE IF ~Includes(Trim(e.smiOut), T4)
    THEN [flag |-> flag, log |-> <<Ok("nvidia-smi")>>,
          warning |-> NoError, detectedT4 |-> FALSE, verifiedNvenc |-> FALSE]
  ELSE IF e.codecs # NoError
    THEN [flag |-> TRUE,
          log |-> <<Ok("nvidia-smi"), Failed("ffmpeg -codecs", e.codecs)>>,
          warning |-> e.codecs, detectedT4 |-> TRUE, verifiedNvenc |-> FALSE]
  ELSE IF ~Includes(e.codecsOut, Nvenc)
    THEN [flag |-> FALSE, log |-> <<Ok("nvidia-smi"), Ok("ffmpeg -codecs")>>,
          warning |-> NoError, detectedT4 |-> TRUE, verifiedNvenc |-> FALSE]
  ELSE [flag |-> TRUE, log |-> <<Ok("nvidia-smi"), Ok("ffmpeg -codecs")>>,
        warning |-> NoError, detectedT4 |-> TRUE, verifiedNvenc |-> TRUE]

FFMpegIdle ==
  [pc |-> "none", log |-> <<>>, inflight |-> {}, warning |-> NoError,
   detectedT4 |-> FALSE, verifiedNvenc |-> FALSE, error |-> NoError]

\* FFMpeg.init up to the dynamic import
FFMpegInitStart == [FFMpegIdle EXCEPT !.pc = "import", !.inflight = {"import"}]

\* FFMpeg.init: the then-callback of the import, or its rejection
AfterImport(fi, flag, err, e) ==
  IF err # NoError
    THEN [fi EXCEPT !.pc = "thrown", !.inflight = {}, !.error = err,
                    !.log = Append(@, Failed("import", err))]
    ELSE LET d == GpuDetect(flag, e) IN
         [fi EXCEPT !.pc = "returned", !.inflight = {},
                    !.log = <<Ok("import")>> \o d.log,
                    !.warning = d.warning, !.detectedT4 = d.detectedT4,
                    !.verifiedNvenc = d.verifiedNvenc]

\* the static flag after the import has settled
FlagAfterImport(flag, err, e) ==
  IF err # NoError THEN flag ELSE GpuDetect(flag, e).flag

(* ----------------------------- audio commands -------------------------- *)
\* largest number of events the transcoder emits for one command
MaxEvents == 2

Audios == {"a1", "a2"}
OutputPaths == {"p1", "p2"}

HwaccelOptions == <<"-hwaccel cuda", "-hwaccel_output_format cuda", "-c:a aac">>
Mp3GpuOptions == <<"-c:a aac", "-b:a 128k">>

\* FFMpeg.getAudioCommand
GetAudioCommand(input, flag) ==
  [input |-> input, outputOptions |-> IF flag THEN HwaccelOptions ELSE <<>>]

Pending == [state |-> "pending", value |-> <<>>]
Resolved(v) == [state |-> "resolved", value |-> v]
Rejected(err) == [state |-> "rejected", value |-> <<err>>]

\* a promise that takes every call of resolve or reject
MutSettle(p, outcome) == outcome

\* resolve or reject of `new Promise': only the first call settles it
Settle(p, outcome) == IF p.state = "pending" THEN outcome ELSE p

AudioIdle ==
  [op |-> "none", path |-> "none", command |-> GetAudioCommand("none", FALSE),
   format |-> "none", events |-> <<>>, chunks |-> <<>>, promise |-> Pending]

\* FFMpeg.saveNormalizedAudio up to .save(outputPath)
SaveNormalizedAudio(a, outputPath, flag) ==
  [AudioIdle EXCEPT !.op = "saveNormalizedAudio", !.path = outputPath,
                    !.command = GetAudioCommand(a, flag), !.format = "wav"]

\* the mp3 command of createMp3DataUri and saveToMp3
Mp3Command(a, flag) ==
  LET c == GetAudioCommand(a, flag) IN
  IF flag THEN [c EXCEPT !.outputOptions = @ \o Mp3GpuOptions] ELSE c

\* FFMpeg.saveToMp3 up to .save(filePath)
SaveToMp3(a, filePath, flag) ==
  [AudioIdle EXCEPT !.op = "saveToMp3", !.path = filePath,
                    !.command = Mp3Command(a, flag), !.format = "mp3"]

\* FFMpeg.createMp3DataUri up to .pipe()
CreateMp3DataUri(a, flag) ==
  [AudioIdle EXCEPT !.op = "createMp3DataUri",
                    !.command = Mp3Command(a, flag), !.format = "mp3"]

\* `data:audio/mp3;base64,${buffer.toString("base64")}'
DataUri(chunks) == <<"data:audio/mp3;base64">> \o chunks

\* the "end" handlers
OnEnd(c) ==
  [c EXCEPT !.events = Append(@, <<"end">>),
            !.promise = Settle(@, Resolved(IF c.op = "createMp3DataUri"
                                             THEN DataUri(c.chunks)
                                             ELSE c.path))]

\* the "error" handlers
OnError(c, err) ==
  [c EXCEPT !.events = Append(@, <<"error", err>>),
            !.promise = Settle(@, Rejected(err))]

\* the "data" handler of createMp3DataUri
OnData(c, chunk) ==
  [c EXCEPT !.events = Append(@, <<"data">>), !.chunks = Append(@, chunk)]

OtherThanFFMpeg ==
  UNCHANGED <<component, remotionInit, render, whisperInit, scriptFile,
              caption, overlapping, kokoroInit, generate>>

FFMpegInitCall ==
  /\ component = "FFMpeg"
  /\ ffmpegInit.pc \in {"none", "returned", "thrown"}
  /\ ffmpegInit' = FFMpegInitStart
  /\ audio' = AudioIdle
  /\ UNCHANGED gpuAccelerated
  /\ OtherThanFFMpeg

ImportSettles ==
  /\ component = "FFMpeg"
  /\ ffmpegInit.pc = "import"
  /\ \E err \in {NoError} \cup Errors, e \in GpuDetectEnvs :
       /\ ffmpegInit' = AfterImport(ffmpegInit, gpuAccelerated, err, e)
       /\ gpuAccelerated' = FlagAfterImport(gpuAccelerated, err, e)
  /\ UNCHANGED audio
  /\ OtherThanFFMpeg

SaveNormalizedAudioCall ==
  /\ component = "FFMpeg"
  /\ ffmpegInit.pc = "returned"
  /\ audio.op = "none"
  /\ \E a \in Audios, outputPath \in OutputPaths :
       audio' = SaveNormalizedAudio(a, outputPath, gpuAccelerated)
  /\ UNCHANGED <<ffmpegInit, gpuAccelerated>>
  /\ OtherThanFFMpeg

SaveToMp3Call ==
  /\ component = "FFMpeg"
  /\ ffmpegInit.pc = "returned"
  /\ audio.op = "none"
  /\ \E a \in Audios, filePath \in OutputPaths :
       audio' = SaveToMp3(a, filePath, gpuAccelerated)
  /\ UNCHANGED <<ffmpegInit, gpuAccelerated>>
  /\ OtherThanFFMpeg

CreateMp3DataUriCall ==
  /\ component = "FFMpeg"
  /\ ffmpegInit.pc = "returned"
  /\ audio.op = "none"
  /\ \E a \in Audios : audio' = CreateMp3DataUri(a, gpuAccelerated)
  /\ UNCHANGED <<ffmpegInit, gpuAccelerated>>
  /\ OtherThanFFMpeg

TranscoderEmitsEnd ==
  /\ component = "FFMpeg"
  /\ audio.op # "none"
  /\ Len(audio.events) < MaxEvents
  /\ audio' = OnEnd(audio)
  /\ UNCHANGED <<ffmpegInit, gpuAccelerated>>
  /\ OtherThanFFMpeg

TranscoderEmitsError ==
  /\ component = "FFMpeg"
  /\ audio.op # "none"
  /\ Len(audio.events) < MaxEvents
  /\ \E err \in Errors : audio' = OnError(audio, err)
  /\ UNCHANGED <<ffmpegInit, gpuAccelerated>>
  /\ OtherThanFFMpeg

TranscoderEmitsData ==
  /\ component = "FFMpeg"
  /\ audio.op = "createMp3DataUri"
  /\ Len(audio.events) < MaxEvents
  /\ audio' = OnData(audio, "chunk")
  /\ UNCHANGED <<ffmpegInit, gpuAccelerated>>
  /\ OtherThanFFMpeg

(* =============================== Whisper ================================ *)
\* outputs of `python -c "import torch; print(torch.cuda.is_available())"'
TrueStr == <<"T", "r", "u", "e">>
CudaProbeOutputs == { TrueStr \o <<"\n">>,
                      <<"F", "a", "l", "s", "e", "\n">>,
                      <<"W", "\n">> \o TrueStr \o <<"\n">> }

\* the environment of the GPU setup block of Whisper.init
WhisperSetupEnvs == [pip : {NoError} \cup Errors, probe : {NoError} \cup Errors,
                     probeOut : CudaProbeOutputs]

CudaNotAvailable == <<"CUDA is not available", 0>>

WhisperIdle ==
  [pc |-> "none", runningInDocker |-> FALSE, log |-> <<>>, probeOut |-> <<>>,
   error |-> NoError]

WhisperThrown(w, log, err) ==
  [w EXCEPT !.pc = "thrown", !.log = log, !.error = err]

\* an init that does not compare the output of the probe
MutWhisperInit(docker, e) ==
  LET w == [WhisperIdle EXCEPT !.runningInDocker = docker] IN
  IF docker THEN [w EXCEPT !.pc = "returned"]
  ELSE IF e.pip # NoError
    THEN WhisperThrown(w, <<Failed("pip install", e.pip)>>, e.pip)
  ELSE IF e.probe # NoError
    THEN WhisperThrown(w, <<Ok("pip install"), Failed("cuda probe", e.probe)>>,
                       e.probe)
  ELSE [w EXCEPT !.pc = "returned", !.probeOut = e.probeOut,
                 !.log = <<Ok("pip install"), Ok("cuda probe")>>]

\* Whisper.init
WhisperInit(docker, e) ==
  LET w == [WhisperIdle EXCEPT !.runningInDocker = docker] IN
  IF docker THEN [w EXCEPT !.pc = "returned"]
  ELSE IF e.pip # NoError
    THEN WhisperThrown(w, <<Failed("pip install", e.pip)>>, e.pip)
  ELSE IF e.probe # NoError
    THEN WhisperThrown(w, <<Ok("pip install"), Failed("cuda probe", e.probe)>>,
                       e.probe)
  ELSE IF Trim(e.probeOut) # TrueStr
    THEN [WhisperThrown(w, <<Ok("pip install"), Ok("cuda probe")>>,
                        CudaNotAvailable) EXCEPT !.probeOut = e.probeOut]
  ELSE [w EXCEPT !.pc = "returned", !.probeOut = e.probeOut,
                 !.log = <<Ok("pip install"), Ok("cuda probe")>>]

(* ------------------------- Whisper.CreateCaption ----------------------- *)
\* largest number of words the engine reports for one audio
MaxWords == 2
\* timestamps are counted in ticks, TicksPerMs of them to the millisecond
TicksPerMs == 2
\* largest timestamp the engine reports, in ticks
MaxTicks == 2

AudioPaths == {"a1.wav", "a2.wav"}
Texts == {" hi", " yo"}

\* the records the script prints: text, start and end (in ticks)
Words == { w \in [text : Texts, start : 0..MaxTicks, end : 0..MaxTicks] :
             w.start <= w.end }

WordSeqs == UNION { [1..n -> Words] : n \in 0..MaxWords }

\* Math.floor
MutMathRound(t) == t \div TicksPerMs

\* Math.round of t ticks taken as milliseconds: floor(x + 0.5)
MathRound(t) == (2 * t + TicksPerMs) \div (2 * TicksPerMs)

\* the script written to whisperInstallPath/transcribe_gpu.py
PythonScript(audioPath) ==
  [model_size |-> "whisperModel", audio_path |-> audioPath]

NoFile == [model_size |-> "none", audio_path |-> "none"]

CaptionIdle ==
  [pc |-> "idle", audioPath |-> "none", pythonScript |-> NoFile,
   inflight |-> {}, log |-> <<>>, transcribed |-> "none", words |-> <<>>,
   captions |-> <<>>, error |-> NoError]

\* CreateCaption up to its await of fs.writeFile
CreateCaptionStart(audioPath) ==
  [CaptionIdle EXCEPT !.pc = "writeFile", !.audioPath = audioPath,
                      !.pythonScript = PythonScript(audioPath),
                      !.inflight = {"writeFile"}]

\* a CreateCaption that goes on after fs.writeFile has failed
MutAfterWriteFile(c, err) ==
  [c EXCEPT !.pc = "written", !.inflight = {},
            !.log = Append(@, IF err # NoError THEN Failed("writeFile", err)
                                               ELSE Ok("writeFile"))]

\* fs.writeFile settles: the promise CreateCaption awaits
AfterWriteFile(c, err) ==
  IF err # NoError
    THEN [c EXCEPT !.pc = "thrown", !.inflight = {}, !.error = err,
                   !.log = Append(@, Failed("writeFile", err))]
    ELSE [c EXCEPT !.pc = "written", !.inflight = {},
                   !.log = Append(@, Ok("writeFile"))]

\* the file after fs.writeFile has settled
FileAfterWrite(file, c, err) == IF err # NoError THEN file ELSE c.pythonScript

\* what `python transcribe_gpu.py' does: it fails, or prints text that is the
\* JSON of the words of the audio the script names, or is no JSON
ScriptRuns == [exec : {NoError} \cup Errors, json : BOOLEAN, words : WordSeqs]

SyntaxError == <<"SyntaxError", 0>>

\* words.map(word => ({text, startMs, endMs}))
ToCaptions(words) ==
  [i \in 1..Len(words) |->
     [text |-> words[i].text, startMs |-> MathRound(words[i].start),
      endMs |-> MathRound(words[i].end)]]

\* CreateCaption after the await: execSync, JSON.parse, map, and the catch
AfterWritten(c, file, run) ==
  IF run.exec # NoError
    THEN [c EXCEPT !.pc = "thrown", !.error = run.exec,
                   !.transcribed = file.audio_path,
                   !.log = Append(@, Failed("python", run.exec))]
  ELSE IF ~run.json
    THEN [c EXCEPT !.pc = "thrown", !.error = SyntaxError,
                   !.transcribed = file.audio_path,
                   !.log = @ \o <<Ok("python"), Failed("JSON.parse", SyntaxError)>>]
  ELSE [c EXCEPT !.pc = "returned", !.transcribed = file.audio_path,
                 !.words = run.words, !.captions = ToCaptions(run.words),
                 !.log = @ \o <<Ok("python"), Ok("JSON.parse")>>]

OtherThanWhisper ==
  UNCHANGED <<component, remotionInit, render, gpuAccelerated, ffmpegInit,
              audio, kokoroInit, generate>>

WhisperInitCall ==
  /\ component = "Whisper"
  /\ whisperInit.pc \in {"none", "thrown"}
  /\ \E docker \in BOOLEAN, e \in WhisperSetupEnvs :
       whisperInit' = WhisperInit(docker, e)
  /\ UNCHANGED <<caption, scriptFile, overlapping>>
  /\ OtherThanWhisper

CreateCaptionCall ==
  /\ component = "Whisper"
  /\ whisperInit.pc = "returned"
  /\ caption.pc \in {"idle", "returned", "thrown"}
  /\ \E audioPath \in AudioPaths : caption' = CreateCaptionStart(audioPath)
  /\ UNCHANGED <<whisperInit, scriptFile, overlapping>>
  /\ OtherThanWhisper

WriteFileSettles ==
  /\ component = "Whisper"
  /\ caption.pc = "writeFile"
  /\ \E err \in {NoError} \cup Errors :
       /\ caption' = AfterWriteFile(caption, err)
       /\ scriptFile' = FileAfterWrite(scriptFile, caption, err)
  /\ UNCHANGED <<whisperInit, overlapping>>
  /\ OtherThanWhisper

ExecuteScript ==
  /\ component = "Whisper"
  /\ caption.pc = "written"
  /\ \E run \in ScriptRuns :
       /\ (run.exec # NoError \/ ~run.json) => run.words = <<>>
       /\ run.exec # NoError => run.json
       /\ caption' = AfterWritten(caption, scriptFile, run)
  /\ UNCHANGED <<whisperInit, scriptFile, overlapping>>
  /\ OtherThanWhisper

\* A second CreateCaption call on the instance, made with another audio
\* while the first call has not returned.  CreateCaption takes no lock and
\* both calls build the same scriptPath, so the second call runs the same
\* code on the same file; each call resumes after its own await.
OverlappingCreateCaptionCall ==
  /\ component = "Whisper"
  /\ whisperInit.pc = "returned"
  /\ caption.pc \in {"writeFile", "written"}
  /\ overlapping.pc = "idle"
  /\ \E audioPath \in AudioPaths \ {caption.audioPath} :
       overlapping' = CreateCaptionStart(audioPath)
  /\ UNCHANGED <<whisperInit, scriptFile, caption>>
  /\ OtherThanWhisper

OverlappingWriteFileSettles ==
  /\ component = "Whisper"
  /\ overlapping.pc = "writeFile"
  /\ \E err \in {NoError} \cup Errors :
       /\ overlapping' = AfterWriteFile(overlapping, err)
       /\ scriptFile' = FileAfterWrite(scriptFile, overlapping, err)
  /\ UNCHANGED <<whisperInit, caption>>
  /\ OtherThanWhisper

OverlappingExecuteScript ==
  /\ component = "Whisper"
  /\ overlapping.pc = "written"
  /\ \E run \in ScriptRuns :
       /\ (run.exec # NoError \/ ~run.json) => run.words = <<>>
       /\ run.exec # NoError => run.json
       /\ overlapping' = AfterWritten(overlapping, scriptFile, run)
  /\ UNCHANGED <<whisperInit, scriptFile, caption>>
  /\ OtherThanWhisper

(* ================================ Kokoro ================================ *)
\* what JSON.parse gives for the config file, when it parses
ParsedConfigs == { [sample_rate |-> 24000], [sample_rate |-> 0],
                   [vocab |-> 1] }

\* the step of Kokoro.init's synchronous part that fails in environment e
\* (6 if none does)
FailingStep(e) ==
  IF e.local # NoError /\ e.global # NoError THEN 1
  ELSE IF ~e.dirExists /\ e.mkdir # NoError THEN 2
  ELSE IF ~e.modelExists THEN 3
  ELSE IF ~e.configExists THEN 4
  ELSE IF e.parse # NoError THEN 5
  ELSE 6

\* the environment of Kokoro.init up to its first await; what init does not
\* get to look at is left at one value
KokoroEnvs ==
  { e \in [local : {NoError} \cup Errors, global : {NoError} \cup Errors,
           dirExists : BOOLEAN, mkdir : {NoError} \cup Errors,
           modelExists : BOOLEAN, configExists : BOOLEAN,
           parse : {NoError} \cup Errors, config : ParsedConfigs] :
      /\ e.local = NoError => e.global = NoError
      /\ e.dirExists => e.mkdir = NoError
      /\ FailingStep(e) < 2 => e.dirExists
      /\ FailingStep(e) < 3 => e.modelExists
      /\ FailingStep(e) < 4 => e.configExists
      /\ FailingStep(e) < 5 => e.parse = NoError
      /\ FailingStep(e) < 6 => e.config = [sample_rate |-> 24000] }

ModelFileNotFound == <<"Model file not found", 0>>
MissingSampleRate == <<"Invalid config file: missing sample_rate", 0>>
NoConfigRead == [vocab |-> 0]

\* `Failed to initialize Kokoro: ${error.message}'
InitFailure(cause) == <<"Failed to initialize Kokoro: ", cause>>

KokoroIdle ==
  [pc |-> "none", log |-> <<>>, inflight |-> {}, config |-> NoConfigRead,
   providers |-> {}, session |-> FALSE, error |-> <<>>]

\* the catch block of Kokoro.init
KokoroThrown(k, log, cause) ==
  [k EXCEPT !.pc = "thrown", !.inflight = {}, !.log = log,
            !.error = InitFailure(cause)]

\* step 1 of Kokoro.init: the local install, and the global one if it fails
InstallLog(e) ==
  IF e.local = NoError THEN <<Ok("npm install")>>
  ELSE IF e.global = NoError
    THEN <<Failed("npm install", e.local), Ok("npm install -g")>>
    ELSE <<Failed("npm install", e.local), Failed("npm install -g", e.global)>>

\* step 2 of Kokoro.init: the models directory
MkdirLog(e) ==
  IF e.dirExists THEN <<>>
  ELSE IF e.mkdir = NoError THEN <<Ok("mkdirSync")>>
  ELSE <<Failed("mkdirSync", e.mkdir)>>

\* Kokoro.init up to its await of getAvailableProviders
KokoroInitStart(e) ==
  LET l1 == InstallLog(e)
      l2 == l1 \o MkdirLog(e)
      l3 == Append(l2, IF e.modelExists THEN Ok("verifyFile model.onnx")
                       ELSE Failed("verifyFile model.onnx", ModelFileNotFound))
      l4 == Append(l3, IF e.configExists THEN Ok("verifyFile config.json")
                       ELSE Failed("verifyFile config.json", ModelFileNotFound))
      l5 == Append(l4, IF e.parse = NoError THEN Ok("parse config.json")
                       ELSE Failed("parse config.json", e.parse))
      l6 == Append(l5, Failed("sample_rate", MissingSampleRate))
  IN
  IF ~l1[Len(l1)].ok THEN KokoroThrown(KokoroIdle, l1, e.global)
  ELSE IF l2 # l1 /\ ~l2[Len(l2)].ok THEN KokoroThrown(KokoroIdle, l2, e.mkdir)
  ELSE IF ~e.modelExists THEN KokoroThrown(KokoroIdle, l3, ModelFileNotFound)
  ELSE IF ~e.configExists THEN KokoroThrown(KokoroIdle, l4, ModelFileNotFound)
  ELSE IF e.parse # NoError THEN KokoroThrown(KokoroIdle, l5, e.parse)
  ELSE IF ~("sample_rate" \in DOMAIN e.config) \/ e.config.sample_rate = 0
    THEN KokoroThrown(KokoroIdle, l6, MissingSampleRate)
  ELSE [KokoroIdle EXCEPT !.pc = "getAvailableProviders", !.log = l5,
                          !.config = e.config,
                          !.inflight = {"getAvailableProviders"}]

Providers == {"cpu", "cuda"}
CudaProviderMissing == <<"CUDA not available", 0>>

\* an init that creates the session whatever the providers are
MutAfterProviders(k, err, providers) ==
  IF err # NoError
    THEN KokoroThrown(k, Append(k.log, Failed("getAvailableProviders", err)), err)
  ELSE [k EXCEPT !.pc = "create", !.providers = providers,
                 !.inflight = {"InferenceSession.create"},
                 !.log = Append(@, Ok("getAvailableProviders"))]

\* Kokoro.init from the settling of getAvailableProviders to the await of
\* InferenceSession.create
AfterProviders(k, err, providers) ==
  IF err # NoError
    THEN KokoroThrown(k, Append(k.log, Failed("getAvailableProviders", err)), err)
  ELSE IF ~("cuda" \in providers)
    THEN [KokoroThrown(k, Append(k.log, Ok("getAvailableProviders")),
                       CudaProviderMissing) EXCEPT !.providers = providers]
  ELSE [k EXCEPT !.pc = "create", !.providers = providers,
                 !.inflight = {"InferenceSession.create"},
                 !.log = Append(@, Ok("getAvailableProviders"))]

\* Kokoro.init from the settling of InferenceSession.create to its end
AfterCreate(k, err) ==
  IF err # NoError
    THEN KokoroThrown(k, Append(k.log, Failed("InferenceSession.create", err)),
                      err)
    ELSE [k EXCEPT !.pc = "returned", !.inflight = {}, !.session = TRUE,
                   !.log = Append(@, Ok("InferenceSession.create"))]

(* ---------------------------- Kokoro.generate -------------------------- *)
\* longest input text tried
MaxTextLen == 1
\* largest number of samples the model returns
MaxSamples == 2
\* samples are SampleDen-ths: the sample n stands for the number n / SampleDen
SampleDen == 2
\* largest sample tried, in SampleDen-ths
MaxSampleNum == 3

Chars == {"a", "b"}
InputTexts == UNION { [1..n -> Chars] : n \in 0..MaxTextLen }
Voices == {"af_heart", "am_adam"}

\* c.charCodeAt(0)
CharCodeAt(c) == IF c = "a" THEN 97 ELSE 98

SampleSeqs == UNION { [1..n -> (-MaxSampleNum)..MaxSampleNum] : n \in 0..MaxSamples }

\* what session.run resolves with: nothing, an object without audio, an audio
\* tensor without data, or an audio tensor with data
ModelOutputs ==
  { [kind |-> "undefined", data |-> <<>>], [kind |-> "no audio", data |-> <<>>],
    [kind |-> "no data", data |-> <<>>] }
    \cup { [kind |-> "audio", data |-> d] : d \in SampleSeqs }

SessionNotInitialized == <<"Inference session not initialized", 0>>
InputTextEmpty == <<"Input text cannot be empty", 0>>
InvalidModelOutputs == <<"Invalid model outputs", 0>>
EmptyAudioData == <<"Empty audio data received", 0>>

Int16Max == 32767
Int16Min == -32768

Min(a, b) == IF a <= b THEN a ELSE b

\* the integer part of num / den, as setInt16 takes it from a number
Truncate(num, den) ==
  IF num >= 0 THEN num \div den ELSE -((-num) \div den)

\* Math.min(32767, Math.max(-32768, value * 32767)) as setInt16 stores it
ToInt16(n) ==
  Truncate(Min(Int16Max * SampleDen, Max(Int16Min * SampleDen, n * Int16Max)),
           SampleDen)

\* view.setInt16(index * 2, v, true): the two bytes of v, low byte first
Int16Bytes(v) ==
  LET u == IF v < 0 THEN v + 65536 ELSE v IN <<u % 256, u \div 256>>

\* Kokoro.preprocessText on a text that is not empty
PreprocessText(text) == [i \in 1..Len(text) |-> CharCodeAt(text[i])]

\* Kokoro.postprocessAudio on data that is not empty
RECURSIVE PostprocessAudio(_)
PostprocessAudio(data) ==
  IF data = <<>> THEN <<>>
  ELSE Int16Bytes(ToInt16(Head(data))) \o PostprocessAudio(Tail(data))

\* the constructor of Kokoro: it keeps the session and the config it is given
Kokoro(session, config) == [session |-> session, config |-> config]

NoOutput == [kind |-> "none", data |-> <<>>]

\* steps lists the methods generate has called, output is what session.run
\* resolved with
GenerateIdle ==
  [pc |-> "idle", instance |-> Kokoro(FALSE, NoConfigRead), text |-> <<>>,
   voice |-> "af_heart", steps |-> <<>>, inputIds |-> <<>>, inflight |-> {},
   log |-> <<>>, output |-> NoOutput, samples |-> <<>>, audio |-> <<>>,
   audioLength |-> <<0, 1>>, error |-> NoError]

\* a generate that does not look at its text
MutGenerateStart(k, text, voice) ==
  LET g == [GenerateIdle EXCEPT !.instance = k, !.text = text,
                                !.voice = voice] IN
  IF ~k.session
    THEN [g EXCEPT !.pc = "thrown", !.error = SessionNotInitialized]
  ELSE [g EXCEPT !.pc = "run", !.inputIds = PreprocessText(text),
                 !.steps = <<"preprocessText", "session.run">>,
                 !.inflight = {"session.run"}]

\* Kokoro.generate up to its await of session.run
GenerateStart(k, text, voice) ==
  LET g == [GenerateIdle EXCEPT !.instance = k, !.text = text,
                                !.voice = voice] IN
  IF ~k.session
    THEN [g EXCEPT !.pc = "thrown", !.error = SessionNotInitialized]
  ELSE IF Len(text) = 0
    THEN [g EXCEPT !.pc = "thrown", !.error = InputTextEmpty,
                   !.steps = <<"preprocessText">>]
  ELSE [g EXCEPT !.pc = "run", !.inputIds = PreprocessText(text),
                 !.steps = <<"preprocessText", "session.run">>,
                 !.inflight = {"session.run"}]

\* Kokoro.generate from the settling of session.run to its end
AfterRun(g, k, err, out) ==
  IF err # NoError
    THEN [g EXCEPT !.pc = "thrown", !.inflight = {}, !.error = err,
                   !.log = Append(@, Failed("session.run", err))]
  ELSE IF out.kind \in {"undefined", "no audio"}
    THEN [g EXCEPT !.pc = "thrown", !.inflight = {}, !.output = out,
                   !.error = InvalidModelOutputs,
                   !.log = Append(@, Ok("session.run"))]
  ELSE IF out.kind = "no data" \/ Len(out.data) = 0
    THEN [g EXCEPT !.pc = "thrown", !.inflight = {}, !.output = out,
                   !.error = EmptyAudioData,
                   !.steps = Append(@, "postprocessAudio"),
                   !.log = Append(@, Ok("session.run"))]
  ELSE LET buffer == PostprocessAudio(out.data) IN
       [g EXCEPT !.pc = "returned", !.inflight = {}, !.output = out,
                 !.samples = out.data, !.audio = buffer,
                 !.steps = Append(@, "postprocessAudio"),
                 !.audioLength = <<Len(buffer), k.config.sample_rate * 2>>,
                 !.log = Append(@, Ok("session.run"))]

OtherThanKokoro ==
  UNCHANGED <<component, remotionInit, render, gpuAccelerated, ffmpegInit,
              audio, whisperInit, scriptFile, caption, overlapping>>

KokoroInitCall ==
  /\ component = "Kokoro"
  /\ kokoroInit.pc \in {"none", "thrown"}
  /\ \E e \in KokoroEnvs : kokoroInit' = KokoroInitStart(e)
  /\ UNCHANGED generate
  /\ OtherThanKokoro

GenerateCall ==
  /\ component = "Kokoro"
  /\ kokoroInit.pc = "returned"
  /\ generate.pc = "idle"
  /\ \E text \in InputTexts, voice \in Voices :
       generate' = GenerateStart(Kokoro(kokoroInit.session, kokoroInit.config),
                                 text, voice)
  /\ UNCHANGED kokoroInit
  /\ OtherThanKokoro

\* generate on an instance made with the constructor, which takes whatever
\* session it is given; a behaviour has one instance, so one made with the
\* constructor leaves Kokoro.init uncalled
GenerateCallOnNew ==
  /\ component = "Kokoro"
  /\ kokoroInit.pc = "none"
  /\ generate.pc = "idle"
  /\ \E session \in BOOLEAN, text \in InputTexts, voice \in Voices :
       generate' = GenerateStart(Kokoro(session, [sample_rate |-> 24000]),
                                 text, voice)
  /\ kokoroInit' = [kokoroInit EXCEPT !.pc = "uncalled"]
  /\ OtherThanKokoro

SessionRunSettles ==
  /\ component = "Kokoro"
  /\ generate.pc = "run"
  /\ \E err \in {NoError} \cup Errors, out \in ModelOutputs :
       /\ err # NoError => out.kind = "undefined"
       /\ generate' = AfterRun(generate, generate.instance, err, out)
  /\ UNCHANGED kokoroInit
  /\ OtherThanKokoro

ProvidersSettle ==
  /\ component = "Kokoro"
  /\ kokoroInit.pc = "getAvailableProviders"
  /\ \E err \in {NoError} \cup Errors, providers \in SUBSET Providers :
       kokoroInit' = AfterProviders(kokoroInit, err, providers)
  /\ UNCHANGED generate
  /\ OtherThanKokoro

SessionCreateSettles ==
  /\ component = "Kokoro"
  /\ kokoroInit.pc = "create"
  /\ \E err \in {NoError} \cup Errors :
       kokoroInit' = AfterCreate(kokoroInit, err)
  /\ UNCHANGED generate
  /\ OtherThanKokoro

(* ================================ whole ================================= *)
Components == {"Remotion", "FFMpeg", "Whisper", "Kokoro"}

Init ==
  /\ component \in Components
  /\ remotionInit = RemotionIdle
  /\ render = RenderIdle
  /\ gpuAccelerated = FALSE
  /\ ffmpegInit = FFMpegIdle
  /\ audio = AudioIdle
  /\ whisperInit = WhisperIdle
  /\ scriptFile = NoFile
  /\ caption = CaptionIdle
  /\ overlapping = CaptionIdle
  /\ kokoroInit = KokoroIdle
  /\ generate = GenerateIdle

Next ==
  \/ RemotionInitCall
  \/ EnsureBrowserSettles
  \/ BundleSettles
  \/ RenderCall
  \/ SelectCompositionSettles
  \/ PrimaryRenderSettles
  \/ FallbackRenderSettles
  \/ FFMpegInitCall
  \/ ImportSettles
  \/ SaveNormalizedAudioCall
  \/ SaveToMp3Call
  \/ CreateMp3DataUriCall
  \/ TranscoderEmitsEnd
  \/ TranscoderEmitsError
  \/ TranscoderEmitsData
  \/ WhisperInitCall
  \/ CreateCaptionCall
  \/ WriteFileSettles
  \/ ExecuteScript
  \/ KokoroInitCall
  \/ ProvidersSettle
  \/ SessionCreateSettles
  \/ GenerateCall
  \/ GenerateCallOnNew
  \/ SessionRunSettles

Spec == Init /\ [][Next]_vars

\* the Whisper instance with overlapping CreateCaption calls
InitOverlap == Init /\ component = "Whisper"

NextOverlap ==
  \/ WhisperInitCall
  \/ CreateCaptionCall
  \/ WriteFileSettles
  \/ ExecuteScript
  \/ OverlappingCreateCaptionCall
  \/ OverlappingWriteFileSettles
  \/ OverlappingExecuteScript

SpecOverlap == InitOverlap /\ [][NextOverlap]_vars

(* ============================== properties ============================== *)
\* the calls of a log that failed, and the position of a call in a log
FailedCalls(log) == { log[i].call : i \in { j \in 1..Len(log) : ~log[j].ok } }
Made(log, name) == \E i \in 1..Len(log) : log[i].call = name
Succeeded(log, name) == \E i \in 1..Len(log) : log[i] = Ok(name)
Count(log, name) == Cardinality({ i \in 1..Len(log) : log[i].call = name })
Last(log) == log[Len(log)]

\* C1: a failed primary render is followed by exactly one fallback render with
\* the same composition, input data and output location; render returns iff
\* the primary or the fallback render succeeded; a failed fallback is thrown
\* to the caller; no render call makes more than two renderMedia calls.
C1_FallbackOnce ==
  LET n == Len(render.renders)
      primaryFailed == "renderMedia primary" \in FailedCalls(render.log)
  IN
  /\ n <= 2
  /\ primaryFailed <=> n = 2
  /\ n >= 1 => render.renders[1].kind = "primary"
  /\ n = 2 =>
       /\ render.renders[2].kind = "fallback"
       /\ render.renders[2].composition = render.renders[1].composition
       /\ render.renders[2].inputProps = render.renders[1].inputProps
       /\ render.renders[2].outputLocation = render.renders[1].outputLocation
  /\ render.pc = "returned" <=>
       \/ Succeeded(render.log, "renderMedia primary")
       \/ Succeeded(render.log, "renderMedia fallback")
  /\ "renderMedia fallback" \in FailedCalls(render.log) =>
       /\ render.pc = "thrown"
       /\ Last(render.log) = Failed("renderMedia fallback", render.error)
       /\ render.inflight = {}
  /\ Count(render.log, "renderMedia primary") <= 1
  /\ Count(render.log, "renderMedia fallback") <= 1

C1_Witness ==
  /\ render.pc = "returned"
  /\ Len(render.renders) = 2
  /\ Succeeded(render.log, "renderMedia fallback")

\* C2 as stated: the fallback render's concurrency is strictly lower than the
\* primary render's, for every configured concurrency.
C2_StrictlyLower ==
  Len(render.renders) = 2 =>
    render.renders[2].concurrency < render.renders[1].concurrency

\* C2: the fallback render's concurrency is at least 1 and never higher than
\* the primary render's; it is strictly lower whenever the configured
\* concurrency is 2 or more, and equal to it (1) when it is 1.
C2_LowerFromTwo ==
  Len(render.renders) = 2 =>
    LET c == render.renders[1].concurrency
        f == render.renders[2].concurrency
    IN /\ c = remotionInit.config.concurrency
       /\ 1 <= f /\ f <= c
       /\ c >= 2 => f < c
       /\ c = 1 => f = 1

C2_Witness ==
  /\ Len(render.renders) = 2
  /\ render.renders[1].concurrency = 3
  /\ render.renders[2].concurrency = 1

\* C3 as stated: apart from a failed primary render, no init or operation
\* returns to its caller after one of its external calls has failed.
C3_OnlyRenderSwallows ==
  /\ remotionInit.pc = "returned" => FailedCalls(remotionInit.log) = {}
  /\ render.pc = "returned" =>
       FailedCalls(render.log) \subseteq {"renderMedia primary"}
  /\ ffmpegInit.pc = "returned" => FailedCalls(ffmpegInit.log) = {}
  /\ whisperInit.pc = "returned" => FailedCalls(whisperInit.log) = {}
  /\ caption.pc = "returned" => FailedCalls(caption.log) = {}
  /\ kokoroInit.pc = "returned" => FailedCalls(kokoroInit.log) = {}
  /\ generate.pc = "returned" => FailedCalls(generate.log) = {}

\* the first "end" or "error" event of a command, <<>> if there is none yet
RECURSIVE FirstSettling(_)
FirstSettling(events) ==
  IF events = <<>> THEN <<>>
  ELSE IF Head(events)[1] \in {"end", "error"} THEN Head(events)
  ELSE FirstSettling(Tail(events))

\* the failure of call `name' of log is what the operation threw
Threw(op, name) ==
  /\ op.pc = "thrown"
  /\ Last(op.log).call = name
  /\ ~Last(op.log).ok

\* C3: a failed external call makes its init or operation fail to the caller,
\* except for: the primary render (CPU fallback), the commands of the GPU setup
\* of Remotion.init and of the GPU detection of FFMpeg.init (logged as
\* warnings), and the local install of Kokoro.init (retried globally).
C3_SwallowedByDesign ==
  /\ \A name \in FailedCalls(remotionInit.log) :
       \/ name \in {"npm install ffmpeg", "npm list", "export FFMPEG_BINARY"}
       \/ Threw(remotionInit, name) /\ remotionInit.error = Last(remotionInit.log).err
  /\ \A name \in FailedCalls(render.log) :
       \/ name = "renderMedia primary"
       \/ Threw(render, name) /\ render.error = Last(render.log).err
  /\ \A name \in FailedCalls(ffmpegInit.log) :
       \/ name \in {"nvidia-smi", "ffmpeg -codecs"}
       \/ Threw(ffmpegInit, name) /\ ffmpegInit.error = Last(ffmpegInit.log).err
  /\ \A name \in FailedCalls(whisperInit.log) :
       Threw(whisperInit, name) /\ whisperInit.error = Last(whisperInit.log).err
  /\ \A name \in FailedCalls(caption.log) :
       Threw(caption, name) /\ caption.error = Last(caption.log).err
  /\ \A name \in FailedCalls(kokoroInit.log) :
       \/ name = "npm install"
       \/ Threw(kokoroInit, name)
            /\ kokoroInit.error = InitFailure(Last(kokoroInit.log).err)
  /\ \A name \in FailedCalls(generate.log) :
       Threw(generate, name) /\ generate.error = Last(generate.log).err
  /\ LET first == FirstSettling(audio.events) IN
       first # <<>> /\ first[1] = "error" => audio.promise = Rejected(first[2])

C3_Witness ==
  /\ kokoroInit.pc = "returned"
  /\ FailedCalls(kokoroInit.log) = {"npm install"}

\* C4: the external calls of one render are sequential: at most one is in
\* flight; a render is started only after selectComposition has succeeded, the
\* fallback only after the primary render has failed; if selectComposition
\* fails no render is started and its error is thrown.
C4_Sequential ==
  /\ Cardinality(render.inflight) <= 1
  /\ render.inflight = {"selectComposition"} =>
       render.log = <<>> /\ render.renders = <<>>
  /\ render.renders # <<>> => render.log[1] = Ok("selectComposition")
  /\ "primary" \in render.inflight =>
       render.log = <<Ok("selectComposition")>> /\ Len(render.renders) = 1
  /\ "fallback" \in render.inflight =>
       /\ Len(render.log) = 2
       /\ render.log[2].call = "renderMedia primary" /\ ~render.log[2].ok
       /\ Len(render.renders) = 2
  /\ Len(render.renders) = 2 =>
       Len(render.log) >= 2 /\ "renderMedia primary" \in FailedCalls(render.log)
  /\ "selectComposition" \in FailedCalls(render.log) =>
       /\ render.renders = <<>>
       /\ render.inflight = {}
       /\ render.pc = "thrown"
       /\ render.log = <<Failed("selectComposition", render.error)>>

C4_Witness == render.inflight = {"fallback"}

\* C5: the promise of saveNormalizedAudio and of saveToMp3 is pending until
\* the transcoder emits "end" or "error", and is then settled by the first of
\* them for good: resolved with the output path passed in if it is "end",
\* rejected with the emitted error if it is "error".
C5_SettledOnce ==
  audio.op \in {"saveNormalizedAudio", "saveToMp3"} =>
    /\ audio.events = <<>> => audio.promise = Pending
    /\ audio.events # <<>> /\ audio.events[1] = <<"end">> =>
         audio.promise = Resolved(audio.path)
    /\ audio.events # <<>> /\ audio.events[1][1] = "error" =>
         audio.promise = Rejected(audio.events[1][2])

C5_Witness ==
  /\ audio.op = "saveToMp3"
  /\ Len(audio.events) = 2
  /\ audio.events[1][1] = "error"
  /\ audio.events[2] = <<"end">>
  /\ audio.promise.state = "rejected"

\* C6: CreateCaption returns one caption per word of the engine, in order,
\* with the same text and with startMs/endMs the word's start/end rounded to
\* the nearest integer (halves upwards); the script is written before it is
\* executed; if writing, executing or parsing fails, the error is thrown and
\* no captions are returned.
C6_Captions ==
  /\ caption.pc = "returned" =>
       /\ caption.log = <<Ok("writeFile"), Ok("python"), Ok("JSON.parse")>>
       /\ Len(caption.captions) = Len(caption.words)
       /\ \A i \in 1..Len(caption.words) :
            LET w == caption.words[i]
                c == caption.captions[i]
            IN /\ c.text = w.text
               /\ 2 * w.start - TicksPerMs < 2 * c.startMs * TicksPerMs
               /\ 2 * c.startMs * TicksPerMs <= 2 * w.start + TicksPerMs
               /\ 2 * w.end - TicksPerMs < 2 * c.endMs * TicksPerMs
               /\ 2 * c.endMs * TicksPerMs <= 2 * w.end + TicksPerMs
  /\ Made(caption.log, "python") => caption.log[1] = Ok("writeFile")
  /\ FailedCalls(caption.log) # {} =>
       /\ caption.pc = "thrown"
       /\ caption.captions = <<>>
       /\ caption.error = Last(caption.log).err

C6_Witness ==
  /\ caption.pc = "returned"
  /\ Len(caption.captions) = 2
  /\ caption.words[1].start = 1 /\ caption.captions[1].startMs = 1
  /\ caption.words[2].end = 2 /\ caption.captions[2].endMs = 1
  /\ caption.words[2].text # caption.words[1].text

\* C7 as stated: gpuAccelerated is true only if the latest init detected a T4
\* and verified nvenc, and otherwise the audio commands carry no
\* hardware-acceleration options.
C7_FlagOnlyIfVerified ==
  ffmpegInit.pc \in {"returned", "thrown"} =>
    /\ gpuAccelerated => ffmpegInit.detectedT4 /\ ffmpegInit.verifiedNvenc
    /\ ~(ffmpegInit.detectedT4 /\ ffmpegInit.verifiedNvenc) =>
         audio.command.outputOptions = <<>>

\* C8: in Docker, Whisper.init returns an instance and runs no command;
\* otherwise it returns one only after the install succeeded and the probe
\* printed True, and throws the error in every other case.
C8_WhisperInit ==
  whisperInit.pc # "none" =>
    /\ whisperInit.runningInDocker =>
         whisperInit.pc = "returned" /\ whisperInit.log = <<>>
    /\ ~whisperInit.runningInDocker /\ whisperInit.pc = "returned" =>
         /\ whisperInit.log = <<Ok("pip install"), Ok("cuda probe")>>
         /\ whisperInit.probeOut = TrueStr \o <<"\n">>
    /\ ~whisperInit.runningInDocker /\ whisperInit.pc # "returned" =>
         /\ whisperInit.pc = "thrown"
         /\ whisperInit.error # NoError
         /\ \/ FailedCalls(whisperInit.log) # {}
                 /\ whisperInit.error = Last(whisperInit.log).err
            \/ whisperInit.probeOut # TrueStr \o <<"\n">>
                 /\ whisperInit.error = CudaNotAvailable

C8_Witness ==
  /\ ~whisperInit.runningInDocker
  /\ whisperInit.pc = "returned"

\* C9: in Docker, Remotion.init runs no install or version command; otherwise
\* a failure of the GPU setup is only a warning; once ensureBrowser has
\* succeeded the bundler is invoked exactly once, and init returns an
\* instance iff the bundling succeeded.
C9_GpuSetupOptional ==
  LET log == remotionInit.log
      setup == {"npm install ffmpeg", "npm list", "export FFMPEG_BINARY"}
  IN
  /\ remotionInit.config.runningInDocker =>
       /\ \A name \in setup : ~Made(log, name)
       /\ remotionInit.warning = NoError
  /\ \A i \in 1..Len(log) :
       log[i].call \in setup /\ ~log[i].ok => remotionInit.warning = log[i].err
  /\ Succeeded(log, "ensureBrowser") =>
       \/ remotionInit.inflight = {"bundle"} /\ Count(log, "bundle") = 0
       \/ remotionInit.inflight = {} /\ Count(log, "bundle") = 1
            /\ Last(log).call = "bundle"
  /\ Made(log, "bundle") => log[1] = Ok("ensureBrowser")
  /\ remotionInit.pc = "returned" <=> Succeeded(log, "bundle")
  /\ "bundle" \in FailedCalls(log) =>
       remotionInit.pc = "thrown" /\ remotionInit.error = Last(log).err

C9_Witness ==
  /\ remotionInit.pc = "returned"
  /\ remotionInit.warning = IncorrectVersion
  /\ ~remotionInit.config.runningInDocker

\* C10: Kokoro.init starts InferenceSession.create only after, in this order,
\* the install succeeded (globally only after the local one failed), the
\* model and the config file were found, the config parsed with a
\* sample_rate, and cuda was among the providers; if a step fails there is no
\* session and no instance, and the error thrown starts with
\* 'Failed to initialize Kokoro: '.
C10_SessionLast ==
  LET log == kokoroInit.log
      pos(name) == CHOOSE i \in 1..Len(log) : log[i].call = name
      installed == IF Succeeded(log, "npm install") THEN "npm install"
                   ELSE "npm install -g"
  IN
  /\ Made(log, "npm install -g") =>
       Len(log) >= 2 /\ log[1].call = "npm install" /\ ~log[1].ok
         /\ log[2].call = "npm install -g"
  /\ ("InferenceSession.create" \in kokoroInit.inflight
        \/ Made(log, "InferenceSession.create")) =>
       /\ Succeeded(log, installed)
       /\ Succeeded(log, "verifyFile model.onnx")
       /\ Succeeded(log, "verifyFile config.json")
       /\ Succeeded(log, "parse config.json")
       /\ Succeeded(log, "getAvailableProviders")
       /\ pos(installed) < pos("verifyFile model.onnx")
       /\ pos("verifyFile model.onnx") < pos("verifyFile config.json")
       /\ pos("verifyFile config.json") < pos("parse config.json")
       /\ pos("parse config.json") < pos("getAvailableProviders")
       /\ "sample_rate" \in DOMAIN kokoroInit.config
       /\ kokoroInit.config.sample_rate # 0
       /\ "cuda" \in kokoroInit.providers
  /\ kokoroInit.session <=> kokoroInit.pc = "returned"
  /\ kokoroInit.session <=> Succeeded(log, "InferenceSession.create")
  /\ (FailedCalls(log) \ {"npm install"}) # {} =>
       /\ kokoroInit.pc = "thrown"
       /\ ~Made(log, "InferenceSession.create")
            \/ Last(log).call = "InferenceSession.create"
  /\ kokoroInit.pc = "thrown" =>
       /\ ~kokoroInit.session
       /\ kokoroInit.inflight = {}
       /\ Len(kokoroInit.error) = 2
       /\ kokoroInit.error[1] = "Failed to initialize Kokoro: "

C10_Witness ==
  /\ kokoroInit.pc = "returned"
  /\ kokoroInit.log[1] = Ok("npm install")

\* C11: generate calls session.run only with a session and a text that is
\* not empty: without a session it throws before preprocessText, with an
\* empty text it throws 'Input text cannot be empty' before session.run; it
\* returns only audio made of a non-empty output, two bytes per sample, and
\* throws when the output has no audio or no samples; what fails is thrown.
C11_ValidInOut ==
  LET g == generate
      ran == \E i \in 1..Len(g.steps) : g.steps[i] = "session.run"
  IN
  g.pc # "idle" =>
    /\ ~g.instance.session =>
         g.pc = "thrown" /\ g.steps = <<>> /\ g.error = SessionNotInitialized
    /\ g.instance.session /\ g.text = <<>> =>
         /\ g.pc = "thrown" /\ g.error = InputTextEmpty
         /\ g.steps = <<"preprocessText">>
    /\ ran <=> g.instance.session /\ g.text # <<>>
    /\ ran => Len(g.inputIds) = Len(g.text) /\ g.steps[1] = "preprocessText"
    /\ ~ran => g.inflight = {} /\ g.log = <<>> /\ g.output = NoOutput
    /\ g.output.kind \in {"undefined", "no audio"} =>
         g.pc = "thrown" /\ g.error = InvalidModelOutputs
    /\ g.output.kind \in {"no data", "audio"} /\ g.output.data = <<>> =>
         g.pc = "thrown" /\ g.error = EmptyAudioData
    /\ g.pc = "returned" =>
         /\ g.output.kind = "audio" /\ Len(g.output.data) > 0
         /\ Len(g.audio) = 2 * Len(g.output.data)
         /\ \A i \in 1..Len(g.audio) : g.audio[i] \in 0..255
         /\ g.log = <<Ok("session.run")>>
    /\ g.pc # "returned" => g.audio = <<>>
    /\ g.pc = "thrown" => g.error # NoError /\ g.inflight = {}
    /\ "session.run" \in FailedCalls(g.log) =>
         g.pc = "thrown" /\ g.error = Last(g.log).err

C11_Witness ==
  /\ generate.pc = "returned"
  /\ Len(generate.output.data) = 2
  /\ Len(generate.audio) = 4
  /\ generate.instance.session

\* C12: with overlapping CreateCaption calls, a call that has written the
\* script finds its own script in the file when it executes it, and the
\* script it has executed names the audio the call was given.
C12_OwnScript ==
  \A c \in {caption, overlapping} :
    /\ c.pc = "written" => scriptFile = c.pythonScript
    /\ c.transcribed # "none" => c.transcribed = c.audioPath
====
